---- MODULE Spec2Model ----
(***************************************************************************)
(* A model of parallelprocessor.ParallelProcessor: task registration       *)
(* (set_worker, add_argument), dispatch to a multiprocessing.Pool          *)
(* (_create_processes, _pool_apply_async) and in-order result collection   *)
(* (run), together with the pool's own execution of submitted tasks.       *)
(***************************************************************************)
EXTENDS Integers, Sequences, FiniteSets, TLC

(***************************************************************************)
(* Bounds of the model.                                                    *)
(***************************************************************************)
\* number of distinct hashable identifiers the caller may register
MaxId == 2
\* largest thread count requested at construction
MaxThreads == 3
\* largest number of items a BasicProgressBar on its own is built on
MaxItems == 4

(***************************************************************************)
(* Python values handed to add_argument as func_args / func_kwargs.  Every *)
(* value is a record of one shape: kind names the Python type, pos holds   *)
(* the elements of a tuple or list (for an int, the number itself), kw the *)
(* items of a dict as <<name, value>> pairs.                               *)
(***************************************************************************)
NoneV == [kind |-> "None", pos |-> <<>>, kw |-> <<>>]

TupleV(s) == [kind |-> "tuple", pos |-> s, kw |-> <<>>]

DictV(items) == [kind |-> "dict", pos |-> <<>>, kw |-> items]

ListV(s) == [kind |-> "list", pos |-> s, kw |-> <<>>]

IntV(n) == [kind |-> "int", pos |-> <<n>>, kw |-> <<>>]

\* Python truth value: None, 0 and the empty containers are falsy
Truthy(v) ==
    CASE v.kind = "None" -> FALSE
      [] v.kind = "dict" -> Len(v.kw) > 0
      [] v.kind = "int" -> v.pos # <<0>>
      [] OTHER -> Len(v.pos) > 0

(***************************************************************************)
(* Workers.  "None" is the unset worker, NotCallable a truthy object that  *)
(* is not callable; the callables are the worker functions of the tests.   *)
(***************************************************************************)
NoWorker == "None"

NotCallable == "not_callable"

Callables == {"dummy_worker_1", "dummy_worker_3"}

Workers == {NoWorker, NotCallable} \cup Callables

\* callable(worker)
Callable(w) == w \in Callables

\* parameter names of a worker, in order
Params(fn) == IF fn = "dummy_worker_1" THEN <<"x">> ELSE <<"a", "b">>

\* parameters that have a default value: dummy_worker_3(a, b=1)
HasDefault(fn, name) == fn = "dummy_worker_3" /\ name = "b"

DefaultOf(fn, name) == 1

KwNames(kw) == {kw[i][1] : i \in 1..Len(kw)}

KwGet(kw, name) == kw[CHOOSE i \in 1..Len(kw) : kw[i][1] = name][2]

IndexOf(seq, x) == CHOOSE i \in 1..Len(seq) : seq[i] = x

\* value bound to parameter number i by the call fn(*pos, **kw)
BoundValue(fn, pos, kw, i) ==
    IF i <= Len(pos) THEN pos[i]
    ELSE IF Params(fn)[i] \in KwNames(kw) THEN KwGet(kw, Params(fn)[i])
    ELSE DefaultOf(fn, Params(fn)[i])

\* the call fn(*pos, **kw) binds every parameter exactly once
Binds(fn, pos, kw) ==
    /\ Len(pos) <= Len(Params(fn))
    /\ \A n \in KwNames(kw) :
          /\ \E i \in 1..Len(Params(fn)) : Params(fn)[i] = n
          /\ IndexOf(Params(fn), n) > Len(pos)
    /\ \A i \in 1..Len(Params(fn)) :
          i > Len(pos) =>
             Params(fn)[i] \in KwNames(kw) \/ HasDefault(fn, Params(fn)[i])

\* the body of the worker on its bound parameters
Body(fn, pos, kw) ==
    IF fn = "dummy_worker_1"
    THEN BoundValue(fn, pos, kw, 1) * BoundValue(fn, pos, kw, 1)
    ELSE BoundValue(fn, pos, kw, 1) * BoundValue(fn, pos, kw, 2)

Ok(v) == [ok |-> TRUE, val |-> v]

Raised == [ok |-> FALSE, val |-> 0]

\* func(*args, **kwds) as the pool's execution unit evaluates it: args must
\* be iterable (a tuple or a list) and kwds a mapping, then the call binds
\* and runs the body; any TypeError is the task's failure
Call(fn, args, kwds) ==
    IF args.kind \notin {"tuple", "list"} \/ kwds.kind # "dict" THEN Raised
    ELSE IF ~Binds(fn, args.pos, kwds.kw) THEN Raised
    ELSE Ok(Body(fn, args.pos, kwds.kw))


(***************************************************************************)
(* Python dicts keep their keys in insertion order: a dict is modelled as  *)
(* the sequence of its <<key, value>> items.                               *)
(***************************************************************************)
Keys(d) == [i \in 1..Len(d) |-> d[i][1]]

KeySet(d) == {d[i][1] : i \in 1..Len(d)}

Get(d, k) == d[CHOOSE i \in 1..Len(d) : d[i][1] = k][2]

\* d[k] = v: a new key is appended, an existing key keeps its position
Put(d, k, v) ==
    IF k \in KeySet(d)
    THEN [i \in 1..Len(d) |-> IF d[i][1] = k THEN <<k, v>> ELSE d[i]]
    ELSE Append(d, <<k, v>>)

(***************************************************************************)
(* Identifiers.  Hashable identifiers are the small integers 1..MaxId; 0   *)
(* stands for an object that is not hashable (the list of                  *)
(* test_add_argument_2).                                                   *)
(***************************************************************************)
HashableIds == 1..MaxId

UnhashableIds == {0}

ProcessIds == HashableIds \cup UnhashableIds

\* isinstance(process_id, collections.Hashable)
Hashable(pid) == pid \in HashableIds

RECURSIVE Ascending(_)
Ascending(S) ==
    IF S = {} THEN <<>>
    ELSE LET m == CHOOSE x \in S : \A y \in S : x <= y
         IN  <<m>> \o Ascending(S \ {m})

\* "for id in self.ids": the iteration order of a CPython set of small
\* non-negative integers.  hash(i) = i and the slot of i is i masked by the
\* table size, so the set is walked in ascending order of the identifiers,
\* whatever the order in which they were added.
SetIterOrder(S) == Ascending(S)

\* cpu_count() of the machine
CpuCount == 2

VARIABLES
    worker,     \* self.worker
    threads,    \* self.threads
    ids,        \* self.ids, a set
    args,       \* self.args, dict id -> func_args
    kwargs,     \* self.kwargs, dict id -> func_kwargs
    pool,       \* self.pool: its state and the tasks handed to it
    processes,  \* self.processes, dict id -> handle
    results,    \* self.results, dict id -> value
    pc,         \* "idle", or "collecting" while run blocks in its loop
    cursor,     \* position of run's loop in self.processes.items()
    awaited,    \* the identifiers whose handle run has called get on
    lastOp,     \* the caller's last operation and how it ended
    call,       \* the arguments of the last add_argument call, where the
                \* specification records them
    requested,  \* the threads argument of the constructor, where the
                \* specification records it
    bar,        \* the BasicProgressBar run iterates through, or NoBar
    wrapped,    \* the sequence a BasicProgressBar on its own is built on
    stdout,     \* what that BasicProgressBar has written to sys.stdout
    yielded     \* the items its iteration has returned so far

vars == <<worker, threads, ids, args, kwargs, pool, processes, results,
          pc, cursor, awaited, lastOp, call, requested, bar, wrapped,
          stdout, yielded>>

\* what the collection loop of run owns while it is at work
loopVars == <<processes, pc, cursor, awaited, bar>>

\* the state of a BasicProgressBar used on its own
barVars == <<wrapped, stdout, yielded>>

NoError == "none"

\* an operation of the caller and the exception it raised (NoError when it
\* returned)
Op(name, raised, why) == [op |-> name, raised |-> raised, why |-> why]

NoCall == [pid |-> 0, fa |-> NoneV, fk |-> NoneV]

\* the value of requested where the threads argument is not recorded
Unrecorded == 0

\* no progress bar: run iterates self.processes.items() itself
NoBar == [len |-> -1, i |-> -1, it |-> -1]

(***************************************************************************)
(* __init__ and _init_pool                                                 *)
(***************************************************************************)
\* an _init_pool that hands the requested count to the pool as it is
InitPoolUnclamped(t) == t

\* _init_pool: a thread count above cpu_count() is reduced to it
InitPool(t) == IF t > CpuCount THEN CpuCount ELSE t

\* the instance ParallelProcessor(worker=w, threads=t) returns
Constructed(w, t) ==
    /\ worker = w
    /\ threads = InitPool(t)
    /\ ids = {}
    /\ args = <<>>
    /\ kwargs = <<>>
    /\ processes = <<>>
    /\ results = <<>>
    /\ pool = [state |-> "RUN", tasks |-> <<>>]
    /\ cursor = 0
    /\ awaited = <<>>
    /\ lastOp = Op("__init__", NoError, "")
    /\ call = NoCall

\* no call of the instance is in progress and no BasicProgressBar is used on
\* its own
Idle ==
    /\ pc = "idle"
    /\ bar = NoBar
    /\ wrapped = <<>>
    /\ stdout = <<>>
    /\ yielded = <<>>

Init ==
    /\ \E w \in Workers, t \in 1..MaxThreads : Constructed(w, t)
    /\ requested = Unrecorded
    /\ Idle

(***************************************************************************)
(* set_worker                                                              *)
(***************************************************************************)
\* a set_worker that also starts a fresh results dict
SetWorkerClearsResults(w) ==
    /\ pc = "idle"
    /\ worker' = w
    /\ results' = <<>>
    /\ lastOp' = Op("set_worker", NoError, "")
    /\ UNCHANGED <<threads, ids, args, kwargs, pool, call, requested,
                   loopVars, barVars>>

SetWorker(w) ==
    /\ pc = "idle"
    /\ worker' = w
    /\ lastOp' = Op("set_worker", NoError, "")
    /\ UNCHANGED <<threads, ids, args, kwargs, pool, results, call,
                   requested, loopVars, barVars>>


(***************************************************************************)
(* add_argument                                                            *)
(***************************************************************************)
\* add_argument without the test "process_id in self.ids": a registered
\* identifier is stored again
AddArgumentErrorNoDuplicateCheck(S, pid, fa, fk) ==
    IF ~Hashable(pid) THEN "not_hashable"
    ELSE IF ~Truthy(fa) /\ ~Truthy(fk) THEN "no_arguments"
    ELSE NoError

\* add_argument testing "func_args is None and func_kwargs is None": empty
\* containers pass
AddArgumentErrorNoneOnly(S, pid, fa, fk) ==
    IF ~Hashable(pid) THEN "not_hashable"
    ELSE IF fa.kind = "None" /\ fk.kind = "None" THEN "no_arguments"
    ELSE IF pid \in S THEN "id_in_use"
    ELSE NoError

\* add_argument without the isinstance test of the identifier
AddArgumentErrorNoHashCheck(S, pid, fa, fk) ==
    IF ~Truthy(fa) /\ ~Truthy(fk) THEN "no_arguments"
    ELSE IF pid \in S THEN "id_in_use"
    ELSE NoError

\* the exception add_argument raises on (process_id, func_args, func_kwargs)
\* with the identifiers S registered, NoError when it stores the task
AddArgumentError(S, pid, fa, fk) ==
    IF ~Hashable(pid) THEN "not_hashable"
    ELSE IF ~Truthy(fa) /\ ~Truthy(fk) THEN "no_arguments"
    ELSE IF pid \in S THEN "id_in_use"
    ELSE NoError

\* an add_argument that leaves self.kwargs alone when func_kwargs is None
AddArgumentSkipsAbsentKwargs(pid, fa, fk) ==
    /\ pc = "idle"
    /\ LET e == AddArgumentError(ids, pid, fa, fk) IN
         IF e = NoError
         THEN /\ ids' = ids \cup {pid}
              /\ args' = Put(args, pid, fa)
              /\ kwargs' = IF fk = NoneV THEN kwargs ELSE Put(kwargs, pid, fk)
              /\ lastOp' = Op("add_argument", NoError, "")
         ELSE /\ UNCHANGED <<ids, args, kwargs>>
              /\ lastOp' = Op("add_argument", "ValueError", e)
    /\ UNCHANGED <<worker, threads, pool, results, requested, loopVars,
                   barVars>>

AddArgument(pid, fa, fk) ==
    /\ pc = "idle"
    /\ LET e == AddArgumentError(ids, pid, fa, fk) IN
         IF e = NoError
         THEN /\ ids' = ids \cup {pid}
              /\ args' = Put(args, pid, fa)
              /\ kwargs' = Put(kwargs, pid, fk)
              /\ lastOp' = Op("add_argument", NoError, "")
         ELSE /\ UNCHANGED <<ids, args, kwargs>>
              /\ lastOp' = Op("add_argument", "ValueError", e)
    /\ UNCHANGED <<worker, threads, pool, results, requested, loopVars,
                   barVars>>

(***************************************************************************)
(* multiprocessing.Pool, as far as the processor uses it                   *)
(***************************************************************************)
Pending == [ok |-> FALSE, val |-> -1]

Task(fn, a, k) == [func |-> fn, args |-> a, kwds |-> k, st |-> "queued",
                   out |-> Pending]

\* an apply_async that takes the task whatever the state of the pool
ApplyAsyncWhenClosed(p, fn, a, k) ==
    [err |-> NoError, why |-> "",
     pool |-> [p EXCEPT !.tasks = Append(@, Task(fn, a, k))],
     handle |-> Len(p.tasks) + 1]

\* Pool.apply_async(func, args, kwds): refused once the pool is closed,
\* otherwise the task joins the queue and its handle is returned
ApplyAsync(p, fn, a, k) ==
    IF p.state # "RUN"
    THEN [err |-> "ValueError", why |-> "pool_not_running", pool |-> p,
          handle |-> 0]
    ELSE [err |-> NoError, why |-> "",
          pool |-> [p EXCEPT !.tasks = Append(@, Task(fn, a, k))],
          handle |-> Len(p.tasks) + 1]

\* a close that leaves the pool accepting submissions
CloseLeavesOpen(p) == p

\* Pool.close()
Close(p) == [p EXCEPT !.state = "CLOSE"]

(***************************************************************************)
(* _pool_apply_async                                                       *)
(***************************************************************************)
\* _pool_apply_async passing args alone when both containers are given
PoolApplyAsyncArgsOnly(p, w, a, k) ==
    IF w = NoWorker \/ ~Callable(w)
    THEN [err |-> "AttributeError", why |-> "worker_not_callable",
          pool |-> p, handle |-> 0]
    ELSE IF a.kind = "None" /\ k.kind = "None"
    THEN [err |-> "ValueError", why |-> "args_and_kwargs_none", pool |-> p,
          handle |-> 0]
    ELSE IF Truthy(a) THEN ApplyAsync(p, w, a, DictV(<<>>))
    ELSE ApplyAsync(p, w, TupleV(<<>>), k)

\* _pool_apply_async handing both stored containers to the pool as they
\* are, an absent or empty one included
PoolApplyAsyncPassesBoth(p, w, a, k) ==
    IF w = NoWorker \/ ~Callable(w)
    THEN [err |-> "AttributeError", why |-> "worker_not_callable",
          pool |-> p, handle |-> 0]
    ELSE IF a.kind = "None" /\ k.kind = "None"
    THEN [err |-> "ValueError", why |-> "args_and_kwargs_none", pool |-> p,
          handle |-> 0]
    ELSE ApplyAsync(p, w, a, k)

\* _pool_apply_async without the validation of the worker
PoolApplyAsyncNoWorkerCheck(p, w, a, k) ==
    IF a.kind = "None" /\ k.kind = "None"
    THEN [err |-> "ValueError", why |-> "args_and_kwargs_none", pool |-> p,
          handle |-> 0]
    ELSE IF Truthy(a) /\ Truthy(k) THEN ApplyAsync(p, w, a, k)
    ELSE IF Truthy(a) /\ ~Truthy(k) THEN ApplyAsync(p, w, a, DictV(<<>>))
    ELSE ApplyAsync(p, w, TupleV(<<>>), k)

PoolApplyAsync(p, w, a, k) ==
    IF w = NoWorker \/ ~Callable(w)
    THEN [err |-> "AttributeError", why |-> "worker_not_callable",
          pool |-> p, handle |-> 0]
    ELSE IF a.kind = "None" /\ k.kind = "None"
    THEN [err |-> "ValueError", why |-> "args_and_kwargs_none", pool |-> p,
          handle |-> 0]
    ELSE IF Truthy(a) /\ Truthy(k) THEN ApplyAsync(p, w, a, k)
    ELSE IF Truthy(a) /\ ~Truthy(k) THEN ApplyAsync(p, w, a, DictV(<<>>))
    ELSE ApplyAsync(p, w, TupleV(<<>>), k)

(***************************************************************************)
(* _create_processes                                                       *)
(***************************************************************************)
\* the dict comprehension over self.ids: one _pool_apply_async per
\* identifier of order from position i on; the first exception ends it
RECURSIVE SubmitAll(_, _, _, _, _, _, _)
SubmitAll(order, i, p, procs, w, A, K) ==
    IF i > Len(order) THEN [err |-> NoError, why |-> "", pool |-> p,
                            procs |-> procs]
    ELSE LET r == PoolApplyAsync(p, w, Get(A, order[i]), Get(K, order[i]))
         IN  IF r.err # NoError
             THEN [err |-> r.err, why |-> r.why, pool |-> r.pool,
                   procs |-> procs]
             ELSE SubmitAll(order, i + 1, r.pool,
                            Put(procs, order[i], r.handle), w, A, K)

\* _create_processes walking the dict self.args instead of the set self.ids
DispatchOrderRegistration(S, A) == Keys(A)

\* a comprehension that walks the identifiers twice
DispatchOrderTwice(S, A) == SetIterOrder(S) \o SetIterOrder(S)

\* the order in which _create_processes walks the registered identifiers:
\* it iterates the set self.ids, not the dict self.args
DispatchOrder(S, A) == SetIterOrder(S)

\* _create_processes without the test of an empty registry
CreateProcessesUnchecked(S, A, K, w, p) ==
    LET r == SubmitAll(SetIterOrder(S), 1, p, <<>>, w, A, K)
    IN  IF r.err # NoError THEN r
        ELSE [r EXCEPT !.pool = Close(r.pool)]

\* a _create_processes that closes the pool on every path, the failing ones
\* included
CreateProcessesClosesAlways(S, A, K, w, p) ==
    IF S = {} \/ (Len(A) = 0 /\ Len(K) = 0)
    THEN [err |-> "AttributeError", why |-> "no_tasks", pool |-> Close(p),
          procs |-> <<>>]
    ELSE LET r == SubmitAll(DispatchOrder(S, A), 1, p, <<>>, w, A, K)
         IN  [r EXCEPT !.pool = Close(r.pool)]

CreateProcesses(S, A, K, w, p) ==
    IF S = {} \/ (Len(A) = 0 /\ Len(K) = 0)
    THEN [err |-> "AttributeError", why |-> "no_tasks", pool |-> p,
          procs |-> <<>>]
    ELSE LET r == SubmitAll(DispatchOrder(S, A), 1, p, <<>>, w, A, K)
         IN  IF r.err # NoError THEN r
             ELSE [r EXCEPT !.pool = Close(r.pool)]


(***************************************************************************)
(* BasicProgressBar                                                        *)
(***************************************************************************)
\* one write of __next__ to sys.stdout: the text
\* "\rCompleted {i}/{len} processes. {time} passed.", followed by "\n" when
\* newline is TRUE
Message(i, n) == [i |-> i, len |-> n, newline |-> i = n]

\* a progress bar whose count starts at 1
BasicProgressBarFromOne(items) == [len |-> Len(items), i |-> 1, it |-> 1]

\* BasicProgressBar(iterator) and __iter__: the length of the wrapped
\* sequence, a count of 0 and an iterator at the first item (it is the
\* position of self._iterator)
BasicProgressBar(items) == [len |-> Len(items), i |-> 0, it |-> 1]

\* a __next__ that passes over the first item of the wrapped sequence
BarNextSkipsFirst(b, items) ==
    LET at == IF b.i = 0 THEN b.it + 1 ELSE b.it
    IN  [out |-> <<Message(b.i, b.len)>>,
         stop |-> at > Len(items),
         item |-> at,
         bar |-> [b EXCEPT !.i = @ + 1,
                           !.it = IF at > Len(items) THEN at ELSE at + 1]]

\* a __next__ that writes nothing once the wrapped iterator is exhausted
BarNextSilentAtEnd(b, items) ==
    [out |-> IF b.it > Len(items) THEN <<>> ELSE <<Message(b.i, b.len)>>,
     stop |-> b.it > Len(items),
     item |-> b.it,
     bar |-> [b EXCEPT !.i = @ + 1,
                       !.it = IF b.it > Len(items) THEN @ ELSE @ + 1]]

\* __next__: writes the message of the current count (out, what goes to
\* sys.stdout), counts up, and returns next(self._iterator): the item at
\* position item of the wrapped sequence, or StopIteration (stop) when that
\* iterator is exhausted
BarNext(b, items) ==
    [out |-> <<Message(b.i, b.len)>>,
     stop |-> b.it > Len(items),
     item |-> b.it,
     bar |-> [b EXCEPT !.i = @ + 1,
                       !.it = IF b.it > Len(items) THEN @ ELSE @ + 1]]

\* "for item in BasicProgressBar(wrapped)" asks for its next item: what
\* __next__ writes goes to sys.stdout, and the loop ends on StopIteration
BarStep ==
    /\ pc = "iterating"
    /\ LET n == BarNext(bar, wrapped) IN
         /\ bar' = n.bar
         /\ stdout' = stdout \o n.out
         /\ yielded' = IF n.stop THEN yielded
                       ELSE Append(yielded, wrapped[n.item])
         /\ pc' = IF n.stop THEN "exhausted" ELSE "iterating"
    /\ UNCHANGED <<worker, threads, ids, args, kwargs, pool, processes,
                   results, cursor, awaited, lastOp, call, requested,
                   wrapped>>

(***************************************************************************)
(* run                                                                     *)
(***************************************************************************)
\* run(progressbar=...) up to the first get of its collection loop, as the
\* values it leaves: _create_processes either raises, and run ends there, or
\* leaves the handles in self.processes and the pool closed; with
\* progressbar the loop then iterates a BasicProgressBar built on
\* self.processes.items() (the code's fallback when tqdm is not installed),
\* whose first __next__ hands out the first item
RunOutcome(progressbar) ==
    LET r == CreateProcesses(ids, args, kwargs, worker, pool) IN
      IF r.err # NoError
      THEN [pool |-> r.pool, processes |-> processes, pc |-> pc,
            cursor |-> cursor, bar |-> bar, awaited |-> awaited,
            lastOp |-> Op("run", r.err, r.why)]
      ELSE LET first == BarNext(BasicProgressBar(r.procs), r.procs)
               over == IF progressbar THEN first.stop
                       ELSE Len(r.procs) = 0
           IN  [pool |-> r.pool, processes |-> r.procs,
                pc |-> IF over THEN "idle" ELSE "collecting",
                cursor |-> IF progressbar THEN first.item ELSE 1,
                bar |-> IF progressbar /\ ~over THEN first.bar ELSE NoBar,
                awaited |-> <<>>,
                lastOp |-> Op("run", IF over THEN NoError ELSE "running",
                              "")]

Run(progressbar) ==
    /\ pc = "idle"
    /\ LET o == RunOutcome(progressbar) IN
         /\ pool' = o.pool
         /\ processes' = o.processes
         /\ pc' = o.pc
         /\ cursor' = o.cursor
         /\ bar' = o.bar
         /\ awaited' = o.awaited
         /\ lastOp' = o.lastOp
    /\ UNCHANGED <<worker, threads, ids, args, kwargs, results, call,
                   requested, barVars>>

\* a get that hands out the value of the task that finished last in the
\* queue instead of the value of its own task
AsyncGetLatestReady(p, h) ==
    IF p.tasks[h].st # "ready"
    THEN [err |-> "TimeoutError", val |-> 0]
    ELSE LET m == CHOOSE x \in 1..Len(p.tasks) :
                     /\ p.tasks[x].st = "ready"
                     /\ \A y \in 1..Len(p.tasks) :
                           p.tasks[y].st = "ready" => y <= x
         IN  IF p.tasks[m].out.ok
             THEN [err |-> NoError, val |-> p.tasks[m].out.val]
             ELSE [err |-> "WorkerError", val |-> 0]

\* AsyncResult.get(timeout) once its wait is over: TimeoutError when the
\* task is not ready, else the task's value or the exception it raised
AsyncGet(p, h) ==
    IF p.tasks[h].st # "ready"
    THEN [err |-> "TimeoutError", val |-> 0]
    ELSE IF p.tasks[h].out.ok
    THEN [err |-> NoError, val |-> p.tasks[h].out.val]
    ELSE [err |-> "WorkerError", val |-> 0]

\* a loop that catches the exception of get and goes on to the next handle
CollectPastFailure(procs, cur, res, g) ==
    IF g.err # NoError
    THEN [results |-> res, cursor |-> cur + 1, over |-> cur = Len(procs),
          err |-> g.err]
    ELSE [results |-> Put(res, procs[cur][1], g.val), cursor |-> cur + 1,
          over |-> cur = Len(procs), err |-> NoError]

\* a loop that stays on the handle whose result it has stored
CollectAwaitsAgain(procs, cur, res, g) ==
    IF g.err # NoError
    THEN [results |-> res, cursor |-> cur, over |-> TRUE, err |-> g.err]
    ELSE [results |-> Put(res, procs[cur][1], g.val), cursor |-> cur,
          over |-> FALSE, err |-> NoError]

\* a loop that empties self.results when get raises
CollectRollsBack(procs, cur, res, g) ==
    IF g.err # NoError
    THEN [results |-> <<>>, cursor |-> cur, over |-> TRUE, err |-> g.err]
    ELSE [results |-> Put(res, procs[cur][1], g.val), cursor |-> cur + 1,
          over |-> cur = Len(procs), err |-> NoError]

\* one pass of "for process_id, async_result in self.processes.items()":
\* g is what async_result.get(timeout) gave for the item at position cur
Collect(procs, cur, res, g) ==
    IF g.err # NoError
    THEN [results |-> res, cursor |-> cur, over |-> TRUE, err |-> g.err]
    ELSE [results |-> Put(res, procs[cur][1], g.val), cursor |-> cur + 1,
          over |-> cur = Len(procs), err |-> NoError]

\* an exception of get wrapped in one that names the task it came from
SurfacedWithIdentifier(id, err) == Op("run", err, ToString(id))

\* how an exception of async_result.get(timeout), raised while run awaited
\* the task id, reaches the caller: run catches nothing, so the exception
\* leaves run as get raised it and nothing is added to it
Surfaced(id, err) == Op("run", err, "")

\* one pass of the loop of run, blocked in get on the current handle, as the
\* values it leaves when b is the progress bar the loop iterates (NoBar:
\* none).  After a stored result the for statement asks for the next item:
\* the iterator over self.processes.items() itself, or the bar's __next__.
AwaitOutcome(b) ==
    LET s == Collect(processes, cursor, results,
                     AsyncGet(pool, processes[cursor][2]))
        n == BarNext(b, processes)
        decorated == b # NoBar /\ s.err = NoError
        over == IF decorated THEN n.stop ELSE s.over
    IN  [awaited |-> Append(awaited, processes[cursor][1]),
         results |-> s.results,
         cursor |-> IF decorated THEN n.item ELSE s.cursor,
         bar |-> IF over THEN NoBar ELSE IF decorated THEN n.bar ELSE b,
         pc |-> IF over THEN "idle" ELSE "collecting",
         lastOp |-> IF ~over THEN lastOp
                    ELSE IF s.err = NoError THEN Op("run", NoError, "")
                    ELSE Surfaced(processes[cursor][1], s.err)]

\* the wait of get ends when the task is ready, or with the timeout expired
\* while it is not
Await(expired) ==
    /\ pc = "collecting"
    /\ expired = (pool.tasks[processes[cursor][2]].st # "ready")
    /\ LET o == AwaitOutcome(bar) IN
         /\ awaited' = o.awaited
         /\ results' = o.results
         /\ cursor' = o.cursor
         /\ bar' = o.bar
         /\ pc' = o.pc
         /\ lastOp' = o.lastOp
    /\ UNCHANGED <<worker, threads, ids, args, kwargs, pool, processes,
                   call, requested, barVars>>

(***************************************************************************)
(* The pool's execution units                                              *)
(***************************************************************************)
InState(p, st) == {h \in 1..Len(p.tasks) : p.tasks[h].st = st}

\* a free execution unit takes the oldest queued task
PoolStart ==
    /\ InState(pool, "queued") # {}
    /\ Cardinality(InState(pool, "running")) < threads
    /\ LET h == CHOOSE x \in InState(pool, "queued") :
                   \A y \in InState(pool, "queued") : x <= y
       IN  pool' = [pool EXCEPT !.tasks[h].st = "running"]
    /\ UNCHANGED <<worker, threads, ids, args, kwargs, results, lastOp,
                   call, requested, loopVars, barVars>>

\* a running task ends: its handle holds func(*args, **kwds) or its failure
PoolFinish(h) ==
    /\ h \in InState(pool, "running")
    /\ pool' = [pool EXCEPT !.tasks[h].st = "ready",
                            !.tasks[h].out = Call(pool.tasks[h].func,
                                                  pool.tasks[h].args,
                                                  pool.tasks[h].kwds)]
    /\ UNCHANGED <<worker, threads, ids, args, kwargs, results, lastOp,
                   call, requested, loopVars, barVars>>

(***************************************************************************)
(* The caller's inputs and the specifications                              *)
(***************************************************************************)
\* the (func_args, func_kwargs) pairs the caller registers tasks with:
\* nothing, positional only, both, keywords only
TaskInputs ==
    { <<NoneV, NoneV>>,
      <<TupleV(<<2>>), NoneV>>,
      <<TupleV(<<2>>), DictV(<< <<"b", 3>> >>)>>,
      <<NoneV, DictV(<< <<"a", 3>>, <<"b", 3>> >>)>> }

\* The whole life of an instance: registration, run, and the pool at work.
\* Tasks are registered under hashable identifiers; calls with an unhashable
\* identifier or with empty containers are those of SpecRegistry below, and
\* run is called without a progress bar (its default); runs with one are
\* those of SpecRuns.
Next ==
    \/ \E w \in Workers : SetWorker(w)
    \/ \E pid \in HashableIds, t \in TaskInputs :
          AddArgument(pid, t[1], t[2]) /\ UNCHANGED call
    \/ Run(FALSE)
    \/ \E expired \in BOOLEAN : Await(expired)
    \/ PoolStart
    \/ \E h \in 1..Len(pool.tasks) : PoolFinish(h)

Spec == Init /\ [][Next]_vars

\* Runs of an instance built with a callable worker, the requested thread
\* count recorded, with or without the progress bar.  The pool's execution
\* units stay at work for as long as they have something to do: a queued
\* task is started once a unit is free, and a running worker function
\* returns or raises.
InitRuns ==
    \E w \in Callables, t \in 1..MaxThreads :
       Constructed(w, t) /\ requested = t /\ Idle

NextRuns ==
    \/ \E pid \in HashableIds, t \in TaskInputs :
          AddArgument(pid, t[1], t[2]) /\ UNCHANGED call
    \/ \E progressbar \in BOOLEAN : Run(progressbar)
    \/ \E expired \in BOOLEAN : Await(expired)
    \/ PoolStart
    \/ \E h \in 1..Len(pool.tasks) : PoolFinish(h)

SpecRuns ==
    /\ InitRuns
    /\ [][NextRuns]_vars
    /\ WF_vars(PoolStart)
    /\ WF_vars(\E h \in 1..Len(pool.tasks) : PoolFinish(h))

\* the values add_argument is called with in the registration tests: an
\* absent, an empty and a non-empty container for each argument
RegistryArgs == {NoneV, TupleV(<<>>), TupleV(<<2>>)}

RegistryKwargs == {NoneV, DictV(<<>>), DictV(<< <<"b", 3>> >>)}

\* Runs of an instance built with the worker dummy_worker_3 and cpu_count()
\* threads, whose tasks are registered with every combination of absent,
\* empty and non-empty func_args and func_kwargs.
InitForms ==
    /\ Constructed("dummy_worker_3", CpuCount)
    /\ requested = Unrecorded
    /\ Idle

NextForms ==
    \/ \E pid \in HashableIds, fa \in RegistryArgs, fk \in RegistryKwargs :
          AddArgument(pid, fa, fk) /\ UNCHANGED call
    \/ Run(FALSE)
    \/ \E expired \in BOOLEAN : Await(expired)
    \/ PoolStart
    \/ \E h \in 1..Len(pool.tasks) : PoolFinish(h)

SpecForms == InitForms /\ [][NextForms]_vars

\* The same runs with every wait of get coming to its end: get(timeout)
\* returns when the task is ready and raises TimeoutError when the timeout
\* has passed.  Nothing is required of the pool.
SpecWaits ==
    /\ InitForms
    /\ [][NextForms]_vars
    /\ WF_vars(\E expired \in BOOLEAN : Await(expired))

\* A BasicProgressBar on its own, as test_basic_progress_bar uses it: built
\* on a sequence of up to MaxItems items and iterated by a for statement;
\* the instance beside it is never called.
ItemValues == {0, 1}

InitBar ==
    /\ Constructed(NoWorker, CpuCount)
    /\ requested = Unrecorded
    /\ \E n \in 0..MaxItems : \E seq \in [1..n -> ItemValues] :
          /\ wrapped = seq
          /\ bar = BasicProgressBar(seq)
    /\ stdout = <<>>
    /\ yielded = <<>>
    /\ pc = "iterating"

NextBar == BarStep

SpecBar == InitBar /\ [][NextBar]_vars

\* Registration alone, on an instance built with the default arguments
\* (no worker, cpu_count() threads): identifiers hashable or not, with every
\* combination of absent, empty and non-empty func_args and func_kwargs.
\* Each add_argument call is recorded in call.
InitRegistry == Init /\ worker = NoWorker /\ threads = CpuCount

NextRegistry ==
    \E pid \in ProcessIds, fa \in RegistryArgs, fk \in RegistryKwargs :
       AddArgument(pid, fa, fk) /\ call' = [pid |-> pid, fa |-> fa, fk |-> fk]

SpecRegistry == InitRegistry /\ [][NextRegistry]_vars

\* Registration with arguments of other types than the documented ones, as
\* test_add_argument_4 and test_add_argument_6 pass them: func_args a tuple,
\* a scalar or a list, func_kwargs a dict or a list.
TypedArgs == {NoneV, TupleV(<<2>>), IntV(27), ListV(<<2, 3>>)}

TypedKwargs == {NoneV, DictV(<< <<"b", 3>> >>), ListV(<<7, 8>>)}

NextTyped ==
    \E pid \in HashableIds, fa \in TypedArgs, fk \in TypedKwargs :
       AddArgument(pid, fa, fk) /\ call' = [pid |-> pid, fa |-> fa, fk |-> fk]

SpecTyped == InitRegistry /\ [][NextTyped]_vars


(***************************************************************************)
(* Properties                                                              *)
(***************************************************************************)
\* run has just returned without raising
RunReturned == lastOp = Op("run", NoError, "")

\* the exceptions run lets through from async_result.get(timeout)
CollectErrors == {"TimeoutError", "WorkerError"}

\* run has just raised out of its collection loop
RunAborted == lastOp.op = "run" /\ lastOp.raised \in CollectErrors

\* this step is a call of run
RunCalled == pc = "idle" /\ lastOp'.op = "run" /\ lastOp' # lastOp

\* worker(*args, **kwargs) on a task's stored arguments, an absent (None)
\* container passing nothing
DirectCall(w, a, k) ==
    Call(w, IF a.kind = "None" THEN TupleV(<<>>) ELSE a,
            IF k.kind = "None" THEN DictV(<<>>) ELSE k)

\* C1: when run returns without raising, results has exactly one entry per
\* registered identifier and no other key, and results[id] is the value of
\* worker(*args[id], **kwargs[id]) on the arguments stored for id.
C1_RunPostcondition ==
    RunReturned =>
       /\ KeySet(results) = ids
       /\ Len(results) = Cardinality(ids)
       /\ \A id \in ids :
             LET v == DirectCall(worker, Get(args, id), Get(kwargs, id))
             IN  v.ok /\ Get(results, id) = v.val

\* a run returned with two tasks of different shapes and different values
C1_Witness ==
    /\ RunReturned
    /\ Cardinality(ids) = 2
    /\ \E id \in ids : Truthy(Get(args, id)) /\ Truthy(Get(kwargs, id))
    /\ results[1][2] # results[2][2]

\* C2: fail-fast collection.  A get that ends in a timeout or a worker
\* failure ends run there with that error and stores nothing; once run is
\* over no handle is awaited and nothing is stored any more, so after an
\* abort the awaited identifiers are the handles up to the failing one and
\* no identifier from the failing one on is in results.
C2_FailFast ==
    [][ /\ (pc = "collecting" /\ awaited' # awaited
              /\ AsyncGet(pool, processes[cursor][2]).err # NoError)
           => /\ pc' = "idle"
              /\ lastOp' = Op("run", AsyncGet(pool, processes[cursor][2]).err, "")
              /\ results' = results
        /\ (pc = "idle" /\ pc' = "idle")
           => (awaited' = awaited /\ results' = results)
        /\ RunAborted'
           => /\ awaited' = SubSeq(Keys(processes'), 1, Len(awaited'))
              /\ \A i \in Len(awaited')..Len(processes') :
                    processes'[i][1] \notin KeySet(results')
      ]_vars

\* run aborted on its first handle while the task of the second handle had
\* already finished with a value
C2_Witness ==
    /\ RunAborted
    /\ Len(awaited) = 1
    /\ Len(processes) = 2
    /\ pool.tasks[processes[2][2]].st = "ready"
    /\ pool.tasks[processes[2][2]].out.ok

\* C3 as claimed: after a run aborted by a failure or a timeout, results
\* exposes no entry from that run.
C3_AllOrNothing == RunAborted => results = <<>>

\* C3 as the code has it: the values gathered before the failing identifier
\* stay in results, which after the abort holds exactly the identifiers
\* awaited before the failing one, each with the value of its handle.
C3_PartialResultsKept ==
    RunAborted =>
       /\ Keys(results) = SubSeq(Keys(processes), 1, Len(awaited) - 1)
       /\ \A i \in 1..Len(results) :
             results[i][2] = pool.tasks[processes[i][2]].out.val

\* run aborted on its second handle and the first one's value is exposed
C3_Witness ==
    /\ RunAborted
    /\ Len(awaited) = 2
    /\ Len(results) = 1


\* C4: run on an instance whose worker is None or not callable, with a task
\* registered, raises the AttributeError of the worker check and submits
\* nothing: the pool, the handle mapping and results are left as they were
\* (empty on an instance that never dispatched).
C4_WorkerNotSet ==
    [][ (RunCalled /\ ids # {} /\ ~Callable(worker))
        => /\ lastOp' = Op("run", "AttributeError", "worker_not_callable")
           /\ pc' = "idle"
           /\ pool' = pool
           /\ processes' = processes
           /\ results' = results
      ]_vars

\* run raised for the missing worker with tasks registered and nothing was
\* handed to the pool
C4_Witness ==
    /\ lastOp = Op("run", "AttributeError", "worker_not_callable")
    /\ Cardinality(ids) = 2
    /\ pool = [state |-> "RUN", tasks |-> <<>>]
    /\ processes = <<>>
    /\ results = <<>>

\* C5: run on an instance with no registered task raises the AttributeError
\* of the empty registry whatever the worker is, submits nothing and leaves
\* the pool without a task and the handle mapping and results empty.
C5_NoTasks ==
    [][ (RunCalled /\ ids = {})
        => /\ lastOp' = Op("run", "AttributeError", "no_tasks")
           /\ pc' = "idle"
           /\ pool' = pool
           /\ pool'.tasks = <<>>
           /\ processes' = <<>>
           /\ results' = <<>>
      ]_vars

\* run raised for the empty registry although the worker is callable
C5_Witness ==
    /\ lastOp = Op("run", "AttributeError", "no_tasks")
    /\ Callable(worker)
    /\ pool = [state |-> "RUN", tasks |-> <<>>]

\* the registry: ids, args and kwargs
registry == <<ids, args, kwargs>>

\* C6: add_argument with an identifier that is already registered raises a
\* ValueError, the one of the duplicate identifier when arguments are
\* passed with it, and leaves ids, args and kwargs as they were, so the
\* entry keeps the arguments of the first call.
C6_DuplicateRejected ==
    [][ (call'.pid \in ids)
        => /\ lastOp'.op = "add_argument"
           /\ lastOp'.raised = "ValueError"
           /\ (Truthy(call'.fa) \/ Truthy(call'.fk)) => lastOp'.why = "id_in_use"
           /\ registry' = registry
      ]_vars

\* a registered identifier was offered again with other arguments
C6_Witness ==
    /\ lastOp = Op("add_argument", "ValueError", "id_in_use")
    /\ call.pid \in ids
    /\ Get(args, call.pid) # call.fa
    /\ Get(kwargs, call.pid) # call.fk

\* C7 as claimed: add_argument with neither func_args nor func_kwargs
\* (absent or empty) raises the ValueError of the missing arguments whatever
\* the identifier, and leaves the registry unchanged.
C7_MissingArguments ==
    [][ (~Truthy(call'.fa) /\ ~Truthy(call'.fk))
        => /\ lastOp' = Op("add_argument", "ValueError", "no_arguments")
           /\ registry' = registry
      ]_vars

\* C7 as the code has it: with neither func_args nor func_kwargs the call
\* raises a ValueError and leaves the registry unchanged; the error is the
\* one of the missing arguments for a hashable identifier, and the one of
\* the identifier for an identifier that is not hashable.
C7_MissingArgumentsHashable ==
    [][ (~Truthy(call'.fa) /\ ~Truthy(call'.fk))
        => /\ lastOp' = Op("add_argument", "ValueError",
                           IF Hashable(call'.pid) THEN "no_arguments"
                           ELSE "not_hashable")
           /\ registry' = registry
      ]_vars

\* a call with an empty tuple and an empty dict was rejected for its missing
\* arguments on a registry that holds a task
C7_Witness ==
    /\ lastOp = Op("add_argument", "ValueError", "no_arguments")
    /\ call.fa = TupleV(<<>>)
    /\ call.fk = DictV(<<>>)
    /\ call.pid \notin ids
    /\ ids # {}

\* C8: add_argument with an identifier that is not hashable raises the
\* ValueError of the identifier and leaves the registry unchanged, whatever
\* arguments come with it.
C8_InvalidIdentifier ==
    [][ (~Hashable(call'.pid))
        => /\ lastOp' = Op("add_argument", "ValueError", "not_hashable")
           /\ registry' = registry
      ]_vars

\* an unhashable identifier was rejected although arguments came with it
C8_Witness ==
    /\ lastOp = Op("add_argument", "ValueError", "not_hashable")
    /\ ~Hashable(call.pid)
    /\ Truthy(call.fa)
    /\ Truthy(call.fk)
    /\ ids # {}

\* C9 as claimed: the handle mapping is built in the order the tasks were
\* registered, and run waits on the handles in that registration order.
C9_RegistrationOrder ==
    processes # <<>> =>
       /\ Keys(processes) = SubSeq(Keys(args), 1, Len(processes))
       /\ awaited = SubSeq(Keys(args), 1, Len(awaited))

\* C9 as the code has it: the handle mapping is built in the iteration
\* order of the set ids, which follows the identifiers' hashes and not the
\* order of registration, and run waits on the handles in the order of
\* that mapping.
C9_SetIterationOrder ==
    processes # <<>> =>
       /\ KeySet(processes) \subseteq ids
       /\ Keys(processes) = SetIterOrder(KeySet(processes))
       /\ awaited = SubSeq(Keys(processes), 1, Len(awaited))

\* both handles were awaited in an order that is not the registration order
C9_Witness ==
    /\ Len(processes) = 2
    /\ Keys(processes) # Keys(args)
    /\ awaited = Keys(processes)

Items(d) == {d[i] : i \in 1..Len(d)}

\* the worker applied to the stored tasks one after the other, in the order
\* of registration, with no pool
SequentialRun(w, A, K) ==
    [i \in 1..Len(A) |->
        <<A[i][1], DirectCall(w, A[i][2], Get(K, A[i][1])).val>>]

\* C10: when every task completes successfully within the timeout, the
\* results mapping after run is a function of the worker and the registry
\* alone, the same for every order in which the pool completes the tasks.
C10_OrderIndependent ==
    RunReturned => Items(results) = Items(SequentialRun(worker, args, kwargs))

\* a run over two execution units returned results for two tasks whose
\* dispatch order is not their registration order
C10_Witness ==
    /\ RunReturned
    /\ threads = 2
    /\ Len(results) = 2
    /\ Keys(results) # Keys(args)
    /\ results[1][2] # results[2][2]

\* _create_processes has submitted every registered task
Dispatched == processes # <<>>

AllReady == \A h \in 1..Len(pool.tasks) : pool.tasks[h].st = "ready"

\* C11: after a dispatch that has submitted every registered task the pool
\* is closed and refuses any further submission, while every task already
\* submitted still runs to completion: its handle becomes ready.
C11_ClosedPoolCompletes ==
    /\ [](Dispatched =>
            /\ pool.state = "CLOSE"
            /\ Len(pool.tasks) = Len(processes)
            /\ ApplyAsync(pool, "dummy_worker_1", TupleV(<<2>>),
                          DictV(<<>>)).err = "ValueError")
    /\ (Dispatched ~> (pool.state = "CLOSE" /\ AllReady))

\* the pool was closed with two tasks submitted and both have completed
C11_Witness ==
    /\ Dispatched
    /\ pool.state = "CLOSE"
    /\ Len(pool.tasks) = 2
    /\ AllReady

\* the identifier whose get raised: the last one run awaited
Offending == awaited[Len(awaited)]

\* C12 as stated: when run fails because a submitted task raised or exceeded
\* its timeout, the failure that reaches the caller carries the identifier of
\* the offending task together with the underlying cause.
C12_CarriesIdentifier ==
    RunAborted =>
       /\ lastOp.raised \in CollectErrors
       /\ lastOp.why = ToString(Offending)

\* C12, amended: the failure that reaches the caller is the underlying
\* exception itself, the TimeoutError of get or the exception of the worker,
\* with nothing attached that names the task; the offending task is the
\* first identifier of processes that has no entry in results.
C12_BareCause ==
    RunAborted =>
       /\ lastOp = Op("run", lastOp.raised, "")
       /\ Offending = Keys(processes)[Len(results) + 1]
       /\ LET t == pool.tasks[Get(processes, Offending)] IN
            /\ lastOp.raised = "WorkerError" =>
                  /\ t.st = "ready"
                  /\ t.out = Raised
                  /\ t.out = Call(t.func, t.args, t.kwds)
            /\ (t.st = "ready" /\ t.out.ok) => lastOp.raised = "TimeoutError"

\* run was left by the exception of the second task's worker, the first
\* task's value already stored
C12_Witness ==
    /\ RunAborted
    /\ lastOp.raised = "WorkerError"
    /\ Len(awaited) = 2
    /\ Len(results) = 1

\* what a pass of run leaves, apart from the progress bar itself
Undecorated(o) == [o EXCEPT !.bar = NoBar]

\* C13: progress reporting is a pure decoration.  From any state of the
\* instance, run(progressbar=True) and run(progressbar=False) dispatch alike
\* and start at the same handle, and every pass of the loop through the
\* progress bar awaits the same handle, stores the same result, moves to the
\* same next handle and ends the same way (return, or the same exception at
\* the same identifier) as the pass of the loop without it.
C13_PureDecoration ==
    /\ pc = "idle" => Undecorated(RunOutcome(TRUE)) = RunOutcome(FALSE)
    /\ pc = "collecting" =>
          Undecorated(AwaitOutcome(bar)) = Undecorated(AwaitOutcome(NoBar))

\* a run with the progress bar has stored the first of two results and is
\* waiting for the second handle
C13_Witness ==
    /\ pc = "collecting"
    /\ bar = [len |-> 2, i |-> 2, it |-> 3]
    /\ cursor = 2
    /\ Len(results) = 1

\* C14 as stated: wrapping a sequence of N items and iterating it to the end
\* emits exactly N progress lines, the first N-1 without a trailing newline
\* and the N-th terminated with a newline.
C14_OneLinePerItem ==
    pc = "exhausted" =>
       /\ Len(stdout) = Len(wrapped)
       /\ \A k \in 1..Len(stdout) : stdout[k].newline <=> k = Len(wrapped)

\* C14, amended: the reporter emits one progress line per request for an
\* item, the request that ends the iteration included: one line before each
\* item it hands out and one more when the sequence is exhausted, N + 1 lines
\* for N items, the first N without a trailing newline and the last one
\* terminated with a newline.
C14_OneLinePerRequest ==
    /\ pc \in {"iterating", "exhausted"} =>
          /\ Len(stdout) = Len(yielded) + (IF pc = "exhausted" THEN 1 ELSE 0)
          /\ \A k \in 1..Len(stdout) :
                stdout[k].newline <=> k = Len(wrapped) + 1
    /\ pc = "exhausted" => Len(stdout) = Len(wrapped) + 1

\* a sequence of three items was iterated to the end: four lines were written
C14_Witness ==
    /\ pc = "exhausted"
    /\ Len(wrapped) = 3
    /\ Len(stdout) = 4
    /\ stdout[4].newline

\* C15: iterating BasicProgressBar over a sequence of n items to exhaustion
\* yields the n items unchanged and in order, and writes exactly n + 1
\* messages "Completed i/n processes. ..." with i running 0, 1, ..., n, the
\* output ending in a newline that follows only the last message.
C15_ItemsAndMessages ==
    /\ pc = "iterating" => yielded = SubSeq(wrapped, 1, Len(yielded))
    /\ pc = "exhausted" =>
          /\ yielded = wrapped
          /\ stdout = [k \in 1..Len(wrapped) + 1 |->
                         [i |-> k - 1, len |-> Len(wrapped),
                          newline |-> k = Len(wrapped) + 1]]

\* the items 0, 1, 1, 0 were all handed out and the fifth message,
\* "Completed 4/4", ended the output
C15_Witness ==
    /\ pc = "exhausted"
    /\ wrapped = <<0, 1, 1, 0>>
    /\ yielded = <<0, 1, 1, 0>>
    /\ Len(stdout) = 5
    /\ stdout[5] = [i |-> 4, len |-> 4, newline |-> TRUE]

\* C16: the thread count is clamped at construction: for every requested
\* count t >= 1 the instance's threads is the smaller of t and cpu_count()
\* (a request not above cpu_count() is kept, a larger one is reduced, and the
\* constructor raises nothing), and a run with a clamped count still
\* completes every registered task with the value of the worker on its
\* arguments.
C16_ThreadsClamped ==
    /\ requested >= 1
    /\ threads <= requested
    /\ threads <= CpuCount
    /\ threads = requested \/ threads = CpuCount
    /\ lastOp.op = "__init__" => lastOp.raised = NoError
    /\ Cardinality(InState(pool, "running")) <= threads
    /\ (RunReturned /\ requested > CpuCount) =>
          /\ KeySet(results) = ids
          /\ \A id \in ids :
                Ok(Get(results, id)) =
                   DirectCall(worker, Get(args, id), Get(kwargs, id))

\* an instance asked for more threads than cpu_count() returned from a run
\* over two tasks
C16_Witness ==
    /\ requested > CpuCount
    /\ threads = CpuCount
    /\ RunReturned
    /\ Len(results) = 2

\* C17: the results mapping never shrinks: in no step of the instance
\* (set_worker, add_argument, run with its collection loop, a run that
\* fails, the pool at work) is an identifier that is present in results
\* removed from it.
C17_ResultsNeverShrink ==
    [][/\ KeySet(results) \subseteq KeySet(results')
       /\ Len(results') >= Len(results)]_vars

\* a result is held while run was called again and failed on the closed pool
C17_Witness ==
    /\ Len(results) = 1
    /\ lastOp = Op("run", "ValueError", "pool_not_running")

\* C18 as stated: once run has dispatched the registered tasks and the pool
\* is closed, a later add_argument call with a new identifier no longer adds
\* an entry to the registry.
C18_DispatchFreezesRegistry ==
    [][pool.state = "CLOSE" => registry' = registry]_vars

\* the identifiers registered after the dispatch
Latecomers == ids \ KeySet(processes)

\* C18, amended: dispatch freezes the set of submitted tasks, not the
\* registry.  add_argument still stores a new identifier after dispatch,
\* but such an identifier never gets a handle or a result: the pool holds
\* the tasks of the one dispatch and no other, and a run called with a
\* latecomer registered raises at its first submission.
C18_DispatchFreezesSubmission ==
    Dispatched =>
       /\ pool.state = "CLOSE"
       /\ KeySet(processes) \subseteq ids
       /\ Len(pool.tasks) = Len(processes)
       /\ KeySet(results) \cap Latecomers = {}
       /\ (Latecomers # {} /\ lastOp.op = "run") =>
             \/ lastOp = Op("run", "ValueError", "pool_not_running")
             \/ lastOp = Op("run", "AttributeError", "worker_not_callable")

\* after a dispatch of one task, add_argument has stored a second identifier
C18_Witness ==
    /\ Dispatched
    /\ Len(processes) = 1
    /\ Cardinality(Latecomers) = 1
    /\ Latecomers \subseteq KeySet(args)
    /\ lastOp = Op("add_argument", NoError, "")

\* the last add_argument call returned without raising
Registered == lastOp = Op("add_argument", NoError, "")

\* C19: add_argument called with a func_kwargs value that is not a
\* dictionary, and with no func_args, is rejected with a ValueError.
C19_NonDictKwargsRejected ==
    (/\ lastOp.op = "add_argument"
     /\ call.fa = NoneV
     /\ call.fk.kind \notin {"None", "dict"})
    => lastOp.raised = "ValueError"

\* func_args as a tuple of the same elements, a scalar as the one element
AsTuple(v) == TupleV(v.pos)

\* C20: add_argument normalizes positional arguments: after a successful
\* add_argument that was given func_args, the stored args[id] is a tuple: a
\* scalar is stored as the one-element tuple holding it, and a list or a
\* tuple as the tuple of the same elements.
C20_ArgsStoredAsTuple ==
    (Registered /\ call.fa # NoneV) =>
       /\ Get(args, call.pid).kind = "tuple"
       /\ Get(args, call.pid) = AsTuple(call.fa)

\* this step is a call of set_worker
SetWorkerCalled ==
    /\ lastOp'.op = "set_worker"
    /\ lastOp' # lastOp \/ worker' # worker

\* C21: set_worker(fn) replaces the active worker and changes nothing else:
\* the registry, the handle mapping, results and the pool are as they were;
\* it never raises, may be called again and with None, and the worker set
\* last is the function of every task a later dispatch submits.
C21_SetWorkerFrame ==
    [][/\ SetWorkerCalled =>
             /\ worker' \in Workers
             /\ lastOp' = Op("set_worker", NoError, "")
             /\ UNCHANGED <<registry, processes, results, pool, threads>>
       /\ (RunCalled /\ lastOp'.raised \in {NoError, "running"}) =>
             \A h \in 1..Len(pool'.tasks) : pool'.tasks[h].func = worker]_vars

\* after a run that left results, the worker was unset again
C21_Witness ==
    /\ lastOp = Op("set_worker", NoError, "")
    /\ worker = NoWorker
    /\ Dispatched
    /\ Len(results) = 1

\* C22: within one run every registered task is submitted and the pool is
\* closed before the first handle is awaited; the handles are then awaited
\* one at a time in the order of their creation, each at most once, and the
\* result of a handle is stored before the next handle is awaited.
C22_SubmitThenCollectInOrder ==
    /\ pc = "collecting" =>
          /\ pool.state = "CLOSE"
          /\ KeySet(processes) = ids
          /\ Len(pool.tasks) = Len(processes)
          /\ Keys(results) = awaited
          /\ cursor = Len(awaited) + 1
    /\ Dispatched =>
          /\ \A i \in 1..Len(processes) : processes[i][2] = i
          /\ Len(awaited) <= Len(processes)
          /\ awaited = SubSeq(Keys(processes), 1, Len(awaited))
          /\ Len(results) >= Len(awaited) - 1

\* run waits for the second of two handles, the first result stored, while
\* both tasks sit in the closed pool
C22_Witness ==
    /\ pc = "collecting"
    /\ pool.state = "CLOSE"
    /\ Len(pool.tasks) = 2
    /\ awaited = <<1>>
    /\ Keys(results) = <<1>>
    /\ cursor = 2

\* the task the pool holds for the identifier at position i of processes
Submitted(i) == pool.tasks[processes[i][2]]

\* C23: for every task registered through add_argument, dispatch chooses the
\* submission form from the containers that are non-empty: both are handed
\* to the pool when both are non-empty, args alone (kwds left at its default
\* {}) when only args is non-empty, kwargs alone (args left at its default
\* ()) when only kwargs is non-empty; no task is submitted with an absent
\* or empty container as its only argument container.
C23_SubmissionForm ==
    Dispatched =>
       \A i \in 1..Len(processes) :
          LET a == Get(args, processes[i][1])
              k == Get(kwargs, processes[i][1])
              t == Submitted(i)
          IN  /\ Truthy(a) \/ Truthy(k)
              /\ (Truthy(a) /\ Truthy(k)) => (t.args = a /\ t.kwds = k)
              /\ (Truthy(a) /\ ~Truthy(k)) =>
                    (t.args = a /\ t.kwds = DictV(<<>>))
              /\ (~Truthy(a) /\ Truthy(k)) =>
                    (t.args = TupleV(<<>>) /\ t.kwds = k)
              /\ Truthy(t.args) \/ Truthy(t.kwds)
              /\ t.args.kind = "tuple" /\ t.kwds.kind = "dict"

\* one dispatch submitted a task registered with args and an absent kwargs
\* and a task registered with an empty args and kwargs
C23_Witness ==
    /\ Len(processes) = 2
    /\ \E i, j \in 1..2 :
          /\ Get(args, processes[i][1]) = TupleV(<<2>>)
          /\ Get(kwargs, processes[i][1]) = NoneV
          /\ Submitted(i).kwds = DictV(<<>>)
          /\ Get(args, processes[j][1]) = TupleV(<<>>)
          /\ Submitted(j).args = TupleV(<<>>)
          /\ Truthy(Submitted(j).kwds)

\* C24: a successful dispatch submits each registered task exactly once, as
\* (worker, args[id], kwargs[id]), and leaves a handle mapping whose keys
\* are the registered identifiers; no task is submitted again or retried
\* after its handle failed or timed out: in every state, a failed run's
\* included, the pool holds one task per handle.
C24_SubmittedOnce ==
    /\ Len(pool.tasks) = Len(processes)
    /\ Cardinality(KeySet(processes)) = Len(processes)
    /\ {processes[i][2] : i \in 1..Len(processes)} = 1..Len(pool.tasks)
    /\ KeySet(processes) \subseteq ids
    /\ (pc = "collecting" \/ lastOp = Op("run", "running", "")) =>
          KeySet(processes) = ids
    /\ \A i \in 1..Len(processes) :
          Call(Submitted(i).func, Submitted(i).args, Submitted(i).kwds) =
             DirectCall(Submitted(i).func, Get(args, processes[i][1]),
                        Get(kwargs, processes[i][1]))

\* a run over two tasks was aborted by the failure of the first task and the
\* pool still holds the two submissions and no more
C24_Witness ==
    /\ RunAborted
    /\ awaited = <<1>>
    /\ Len(processes) = 2
    /\ Len(pool.tasks) = 2
    /\ results = <<>>

\* C25: every call of run terminates.  With each wait of get ending (a
\* value, the worker's exception or a timeout), run that has dispatched its
\* tasks eventually returns with a result for every handle or raises, and
\* it does so after at most one wait per registered task, whatever the pool
\* completes and in whatever order.
C25_RunTerminates ==
    /\ [](/\ Len(awaited) <= Len(processes)
          /\ pc = "collecting" => Len(awaited) < Len(processes)
          /\ RunReturned => KeySet(results) = KeySet(processes))
    /\ (pc = "collecting" ~> (pc = "idle" /\ (RunReturned \/ RunAborted)))

\* run returned after two waits, one per task
C25_Witness ==
    /\ RunReturned
    /\ Len(processes) = 2
    /\ Len(awaited) = 2
    /\ Len(results) = 2

\* C26: in every reachable state every task stored in the registry has at
\* least one of its args and kwargs non-empty, whatever successful and
\* rejected add_argument calls produced the registry.
C26_StoredTaskHasArguments ==
    \A id \in ids : Truthy(Get(args, id)) \/ Truthy(Get(kwargs, id))

\* the registry holds a task stored with an empty args beside its kwargs and
\* a task stored with an absent kwargs, and the last call was rejected
C26_Witness ==
    /\ lastOp = Op("add_argument", "ValueError", "no_arguments")
    /\ \E i, j \in ids :
          /\ Get(args, i) = TupleV(<<>>)
          /\ Truthy(Get(kwargs, i))
          /\ Get(kwargs, j) = NoneV
          /\ Truthy(Get(args, j))

\* ids, the keys of args and the keys of kwargs are the same identifiers,
\* each held once
RegistryAgrees ==
    /\ KeySet(args) = ids
    /\ KeySet(kwargs) = ids
    /\ Len(args) = Cardinality(ids)
    /\ Len(kwargs) = Cardinality(ids)

\* this step is a call of add_argument
AddArgumentCalled ==
    /\ lastOp'.op = "add_argument"
    /\ lastOp' # lastOp \/ registry' # registry

\* C27: in every state reachable through the public operations the three
\* registry structures agree: ids, the keys of args and the keys of kwargs
\* are equal; a successful add_argument adds one and the same new key to all
\* three, a rejected one changes none of them, and no other operation
\* touches them.
C27_RegistryAgrees ==
    /\ []RegistryAgrees
    /\ [][/\ (AddArgumentCalled /\ lastOp'.raised = NoError) =>
                \E pid \in HashableIds \ ids :
                   /\ ids' = ids \cup {pid}
                   /\ Keys(args') = Append(Keys(args), pid)
                   /\ Keys(kwargs') = Append(Keys(kwargs), pid)
          /\ (AddArgumentCalled /\ lastOp'.raised # NoError) =>
                registry' = registry
          /\ ~AddArgumentCalled => registry' = registry]_vars

\* two tasks are registered, one of them without kwargs, and the last call,
\* made after a run, was rejected
C27_Witness ==
    /\ Cardinality(ids) = 2
    /\ \E id \in ids : Get(kwargs, id) = NoneV
    /\ Dispatched
    /\ lastOp.op = "add_argument"
    /\ lastOp.raised = "ValueError"

\* C28: at every point during and after run, also after run was aborted by
\* a failure or a timeout, the identifiers in results form a prefix of the
\* handle mapping's iteration order: results[id] is present only if every
\* identifier before id in that order is present too, and the identifier
\* whose wait failed is absent.
C28_ResultsPrefix ==
    /\ Len(results) <= Len(processes)
    /\ \A i \in 1..Len(processes) :
          processes[i][1] \in KeySet(results) =>
             \A j \in 1..i : processes[j][1] \in KeySet(results)
    /\ Keys(results) = SubSeq(Keys(processes), 1, Len(results))
    /\ pc = "collecting" => processes[cursor][1] \notin KeySet(results)
    /\ RunAborted => Offending \notin KeySet(results)

\* run was aborted at the second of two handles: results holds the first
\* identifier alone
C28_Witness ==
    /\ RunAborted
    /\ Len(processes) = 2
    /\ Offending = processes[2][1]
    /\ KeySet(results) = {processes[1][1]}

\* C29: run called again on an instance whose pool was closed by an earlier
\* dispatch fails at its first submission attempt, with the ValueError of the
\* closed pool (or the AttributeError of the worker check, when the worker
\* was unset in between), submits nothing, and leaves results and the
\* handle mapping as the earlier run left them.
C29_SecondRunFails ==
    [][(RunCalled /\ pool.state = "CLOSE") =>
          /\ lastOp' = IF Callable(worker)
                       THEN Op("run", "ValueError", "pool_not_running")
                       ELSE Op("run", "AttributeError", "worker_not_callable")
          /\ pool' = pool
          /\ results' = results
          /\ processes' = processes
          /\ awaited' = awaited
          /\ pc' = "idle"]_vars

\* the second run on an instance whose first run collected two results was
\* refused by the pool
C29_Witness ==
    /\ lastOp = Op("run", "ValueError", "pool_not_running")
    /\ pool.state = "CLOSE"
    /\ Len(pool.tasks) = 2
    /\ Len(processes) = 2
    /\ Len(results) = 2

\* the pool as _init_pool made it
FreshPool == [state |-> "RUN", tasks |-> <<>>]

\* the last call was a run refused by a readiness check
ReadinessFailed ==
    /\ lastOp.op = "run"
    /\ lastOp.raised = "AttributeError"
    /\ lastOp.why \in {"worker_not_callable", "no_tasks"}

\* C30: a run that fails its readiness check (worker unset or not callable,
\* or nothing registered) does not consume the instance.  As long as no
\* dispatch has succeeded the pool is open and empty and nothing is
\* collected, however many runs have failed; a run on such an instance with
\* tasks registered and a callable worker set dispatches every registered
\* task; and a run that returns leaves the worker's value for every
\* registered identifier.
C30_FailedCheckKeepsPoolOpen ==
    /\ ~Dispatched =>
          /\ pool = FreshPool
          /\ results = <<>>
          /\ pc = "idle"
    /\ (ReadinessFailed /\ ~Dispatched) => (~Callable(worker) \/ ids = {})
    /\ (~Dispatched /\ ids # {}) =>
          \A w \in Callables :
             LET r == CreateProcesses(ids, args, kwargs, w, pool)
             IN  /\ r.err = NoError
                 /\ KeySet(r.procs) = ids
                 /\ Len(r.pool.tasks) = Cardinality(ids)
                 /\ r.pool.state = "CLOSE"
    /\ RunReturned =>
          /\ KeySet(processes) \subseteq KeySet(results)
          /\ \A i \in 1..Len(processes) :
                Ok(Get(results, processes[i][1])) =
                   Call(Submitted(i).func, Submitted(i).args,
                        Submitted(i).kwds)

\* run was refused for want of a callable worker with two tasks registered,
\* and the pool is still open
C30_Witness ==
    /\ ReadinessFailed
    /\ lastOp.why = "worker_not_callable"
    /\ Cardinality(ids) = 2
    /\ pool = FreshPool

====
